---------------------------- MODULE Spec2Model ----------------------------
(***************************************************************************)
(* torchtext/experimental/datasets/question_answer.py                      *)
(*                                                                         *)
(* QuestionAnswerDataset (__getitem__, __len__, get_vocab) and the factory *)
(* _setup_datasets behind SQuAD1 / SQuAD2.                                 *)
(*                                                                         *)
(* A text is a sequence of one-character strings, a token is a text, a     *)
(* tensor is a record [dtype, data].  Objects (vocabularies, datasets)     *)
(* live in heaps indexed by their address, so that identity ("is") and     *)
(* equality ("==") are different things.                                   *)
(***************************************************************************)
EXTENDS Integers, Sequences, FiniteSets, TLC

VARIABLES
    pc,        \* "start": factory not yet called; "ready": it returned; "failed": it raised
    args,      \* the arguments of the factory call
    raw,       \* what the raw corpus loader yields: [train |-> examples, dev |-> examples]
    vocabs,    \* heap of vocabulary objects; address 1 is the caller's own vocabulary
    datasets,  \* heap of QuestionAnswerDataset objects
    ret,       \* what the factory call returned or raised
    last,      \* the last method call on a dataset and its outcome
    built      \* the two heaps as they were when the factory returned

vars == <<pc, args, raw, vocabs, datasets, ret, last, built>>

----------------------------------------------------------------------------
(* Bounds *)

MaxLen == 2        \* characters in a generated context or answer
MaxAnswers == 2    \* entries of a generated answers / answer_start list
MaxExamples == 2   \* raw examples per split
MaxSplits == 2     \* names in a requested split tuple

----------------------------------------------------------------------------
(* Python values *)

VocabNone == 0     \* vocab=None; addresses of vocabulary objects start at 1

Min(a, b) == IF a < b THEN a ELSE b
Max(a, b) == IF a > b THEN a ELSE b

SeqsUpTo(S, n) == UNION {[1..k -> S] : k \in 0..n}

Range(s) == {s[k] : k \in DOMAIN s}

\* ord() of the characters used
Ord(c) ==
    CASE c = " " -> 32
      [] c = "." -> 46
      [] c = "?" -> 63
      [] c = "A" -> 65
      [] c = "W" -> 87
      [] c = "a" -> 97
      [] c = "c" -> 99
      [] c = "h" -> 104
      [] c = "s" -> 115
      [] c = "t" -> 116
      [] OTHER -> 60      \* "<", the first character of the special tokens

\* str < str: lexicographic by code point
StrLess(s, t) ==
    \E k \in 1..(Min(Len(s), Len(t)) + 1) :
        /\ \A m \in 1..(k - 1) : s[m] = t[m]
        /\ \/ k > Len(s) /\ k <= Len(t)
           \/ k <= Len(s) /\ k <= Len(t) /\ Ord(s[k]) < Ord(t[k])

\* seq[i] of a Python list: [found, value]; a negative i counts from the end
PyIndexOk(seq, i) == -Len(seq) <= i /\ i < Len(seq)
PyIndex(seq, i) == seq[(IF i < 0 THEN Len(seq) + i ELSE i) + 1]

\* s[:k] of a Python string
PyPrefix(s, k) ==
    LET n == IF k >= 0 THEN Min(k, Len(s)) ELSE Max(Len(s) + k, 0)
    IN  [m \in 1..n |-> s[m]]

\* s[lo:hi] of a Python sequence, 0 <= lo
PySlice(s, lo, hi) ==
    LET h == Min(hi, Len(s))
    IN  IF h <= lo THEN <<>> ELSE [m \in 1..(h - lo) |-> s[lo + m]]

----------------------------------------------------------------------------
(* Tokenizers *)

RECURSIVE SplitFrom(_, _, _, _)
SplitFrom(text, i, cur, acc) ==
    IF i > Len(text)
    THEN IF cur = <<>> THEN acc ELSE Append(acc, cur)
    ELSE IF text[i] = " "
         THEN SplitFrom(text, i + 1, <<>>, IF cur = <<>> THEN acc ELSE Append(acc, cur))
         ELSE SplitFrom(text, i + 1, Append(cur, text[i]), acc)

\* str.split(): maximal runs of non-whitespace characters
str_split(text) == SplitFrom(text, 1, <<>>, <<>>)

Punctuation == {".", "?"}

RECURSIVE PadPunct(_, _)
PadPunct(text, i) ==
    IF i > Len(text) THEN <<>>
    ELSE (IF text[i] \in Punctuation THEN <<" ", text[i], " ">> ELSE <<text[i]>>)
             \o PadPunct(text, i + 1)

\* the default tokenizer: punctuation is set apart, then the line is split on whitespace
basic_english(text) == str_split(PadPunct(text, 1))

\* a caller's tokenizer that makes one token of every character
chars(text) == [k \in 1..Len(text) |-> <<text[k]>>]

\* what a caller may pass as tokenizer=
TokenizerArgs == {"None", "split", "chars"}

tokenize(tokenizer, text) ==
    CASE tokenizer = "basic_english" -> basic_english(text)
      [] tokenizer = "split" -> str_split(text)
      [] tokenizer = "chars" -> chars(text)

----------------------------------------------------------------------------
(* Vocabulary, transforms *)

Specials == << <<"<unk>">>, <<"<pad>">> >>

Flatten(ss) ==
    LET RECURSIVE F(_)
        F(k) == IF k > Len(ss) THEN <<>> ELSE ss[k] \o F(k + 1)
    IN  F(1)

\* Vocab(counter): the specials, then the tokens by falling frequency, ties by the token
build_vocab_from_iterator(lines) ==
    LET stream == Flatten(lines)
        toks == Range(stream)
        Count(t) == Cardinality({k \in DOMAIN stream : stream[k] = t})
        Before(u, t) == Count(u) > Count(t) \/ (Count(u) = Count(t) /\ StrLess(u, t))
        Rank(t) == Cardinality({u \in toks : Before(u, t)})
        sorted == [k \in 1..Cardinality(toks) |-> CHOOSE t \in toks : Rank(t) = k - 1]
    IN  [itos |-> Specials \o sorted]

\* vocab[tok]: the token's index, the index of <unk> for an unknown token
vocab_lookup(vocab, tok) ==
    IF \E k \in DOMAIN vocab.itos : vocab.itos[k] = tok
    THEN (CHOOSE k \in DOMAIN vocab.itos : vocab.itos[k] = tok) - 1
    ELSE 0

vocab_func(vocab, toks) == [k \in DOMAIN toks |-> vocab_lookup(vocab, toks[k])]

totensor(ids) == [dtype |-> "long", data |-> ids]

TensorLen(t) == Len(t.data)

\* the transforms of one factory call: closures over the tokenizer and the vocabulary
text_transform(tokenizer, vocab) == [kind |-> "text", tokenizer |-> tokenizer, vocab |-> vocab]

MakeTransforms(tokenizer, vocab) ==
    [context |-> text_transform(tokenizer, vocab),
     question |-> text_transform(tokenizer, vocab),
     answers |-> text_transform(tokenizer, vocab),
     ans_pos |-> [kind |-> "totensor"]]

\* calling a transform on a value, in a heap of vocabularies
Apply(tr, x, heap) ==
    IF tr.kind = "text"
    THEN totensor(vocab_func(heap[tr.vocab], tokenize(tr.tokenizer, x)))
    ELSE totensor(x)

----------------------------------------------------------------------------
(* QuestionAnswerDataset *)

\* __init__
QuestionAnswerDataset(data, vocab, transforms) ==
    [data |-> data, vocab |-> vocab, transforms |-> transforms]

IndexError == [ok |-> FALSE, error |-> "IndexError"]

\* faulty variant: negative indices are refused
data_has_nonneg(self, i) == 0 <= i /\ i < Len(self.data)

\* self.data[i]: whether the list has an item i
data_has(self, i) == PyIndexOk(self.data, i)

\* faulty variant: range(len(raw_answers))
loop_range_answers(ex) == 1..Len(ex.answers)

\* range(len(raw_answer_start))
loop_range(ex) == 1..Len(ex.answer_start)

\* len(self.transforms['context'](raw_context[:ans_start_idx]))
ans_start_token_idx(self, ex, idx, heap) ==
    TensorLen(Apply(self.transforms.context, PyPrefix(ex.context, ex.answer_start[idx]), heap))

\* faulty variant: the end is one past the last token
ans_end_token_idx_exclusive(self, ex, idx, heap) ==
    ans_start_token_idx(self, ex, idx, heap)
        + TensorLen(Apply(self.transforms.answers, ex.answers[idx], heap))

ans_end_token_idx(self, ex, idx, heap) ==
    ans_start_token_idx(self, ex, idx, heap)
        + TensorLen(Apply(self.transforms.answers, ex.answers[idx], heap)) - 1

\* faulty variant: -1 is treated as an offset like any other
ans_pos_item_unguarded(self, ex, idx, heap) ==
    Apply(self.transforms.ans_pos,
          <<ans_start_token_idx(self, ex, idx, heap),
            ans_end_token_idx(self, ex, idx, heap)>>, heap)

\* what one turn of the loop appends to _ans_pos
ans_pos_item(self, ex, idx, heap) ==
    IF ex.answer_start[idx] = -1
    THEN Apply(self.transforms.ans_pos, <<-1, -1>>, heap)
    ELSE Apply(self.transforms.ans_pos,
               <<ans_start_token_idx(self, ex, idx, heap),
                 ans_end_token_idx(self, ex, idx, heap)>>, heap)

\* the loop over the answers; idx counts from 1 here, from 0 in the source
RECURSIVE answers_loop(_, _, _, _, _, _)
answers_loop(self, ex, idx, _answers, _ans_pos, heap) ==
    IF idx \notin loop_range(ex)
    THEN [ok |-> TRUE, answers |-> _answers, ans_pos |-> _ans_pos]
    ELSE IF idx > Len(ex.answers) \/ idx > Len(ex.answer_start)
         THEN IndexError
         ELSE answers_loop(self, ex, idx + 1,
                  Append(_answers, Apply(self.transforms.answers, ex.answers[idx], heap)),
                  Append(_ans_pos, ans_pos_item(self, ex, idx, heap)),
                  heap)

\* what __getitem__(i) returns or raises
__getitem__(self, i, heap) ==
    IF ~data_has(self, i)
    THEN IndexError
    ELSE LET ex == PyIndex(self.data, i)
             _context == Apply(self.transforms.context, ex.context, heap)
             _question == Apply(self.transforms.question, ex.question, heap)
             loop == answers_loop(self, ex, 1, <<>>, <<>>, heap)
         IN  IF loop.ok
             THEN [ok |-> TRUE, context |-> _context, question |-> _question,
                   answers |-> loop.answers, ans_pos |-> loop.ans_pos]
             ELSE IndexError

\* faulty variant: the example read is removed from self.data
getitem_self_consuming(self, i) ==
    IF PyIndexOk(self.data, i)
    THEN LET p == (IF i < 0 THEN Len(self.data) + i ELSE i) + 1
         IN  [self EXCEPT !.data = SubSeq(@, 1, p - 1) \o SubSeq(@, p + 1, Len(@))]
    ELSE self

\* the object after __getitem__(i): no attribute is assigned
getitem_self(self, i) == self

__len__(self) == Len(self.data)

get_vocab(self) == self.vocab

----------------------------------------------------------------------------
(* The factory *)

SplitNames == {"train", "dev", "test"}

\* a split argument: a string (isstr, one name) or a tuple of names
SplitArgs ==
    {[isstr |-> TRUE, names |-> <<n>>] : n \in SplitNames}
        \cup {[isstr |-> FALSE, names |-> t] : t \in SeqsUpTo(SplitNames, MaxSplits)}

\* _check_default_set(split_, ('train', 'dev'), dataset_name): a string becomes a
\* 1-tuple; a name outside the allowed set is a TypeError
_check_default_set(split_) ==
    IF Range(split_.names) \subseteq {"train", "dev"}
    THEN [ok |-> TRUE, split |-> split_.names]
    ELSE [ok |-> FALSE, error |-> "TypeError"]

\* raw.DATASETS[dataset_name](root=root, split=split): one raw dataset per name, in order
raw_datasets(corpus, split) == [k \in DOMAIN split |-> corpus[split[k]]]

\* {name: list(raw_dataset) for name, raw_dataset in zip(split, raw_datasets)}
raw_data_of(corpus, split) ==
    [name \in Range(split) |-> raw_datasets(corpus, split)[CHOOSE k \in DOMAIN split : split[k] = name]]

\* faulty variant: train is demanded whether or not a vocabulary is passed
must_pass_vocab_always(vocab, split) == "train" \notin Range(split)

\* if vocab is None: if 'train' not in split: raise TypeError
must_pass_vocab(vocab, split) == vocab = VocabNone /\ "train" \notin Range(split)

\* apply_transform(data): one token list per example
apply_transform(tokenizer, data) ==
    [k \in DOMAIN data |->
        LET tok_ans == Flatten([m \in DOMAIN data[k].answers |->
                                    tokenize(tokenizer, data[k].answers[m])])
        IN  tokenize(tokenizer, data[k].context) \o tokenize(tokenizer, data[k].question)
                \o tok_ans]

\* faulty variant: the examples of every loaded split
vocab_data_all(raw_data) ==
    (IF "train" \in DOMAIN raw_data THEN raw_data["train"] ELSE <<>>)
        \o (IF "dev" \in DOMAIN raw_data THEN raw_data["dev"] ELSE <<>>)

\* the examples the vocabulary is built from: raw_data['train']
vocab_data(raw_data) == raw_data["train"]

\* the address of the vocabulary the datasets are given, in a heap of `n` vocabularies
vocab_address(vocab, n) == IF vocab = VocabNone THEN n + 1 ELSE vocab

\* faulty variant: one dataset per loaded split, train before dev
make_datasets_by_name(split, raw_data, vocab, transforms) ==
    (IF "train" \in DOMAIN raw_data
     THEN <<QuestionAnswerDataset(raw_data["train"], vocab, transforms)>> ELSE <<>>)
        \o (IF "dev" \in DOMAIN raw_data
            THEN <<QuestionAnswerDataset(raw_data["dev"], vocab, transforms)>> ELSE <<>>)

\* tuple(QuestionAnswerDataset(raw_data[item], vocab, transforms) for item in split)
make_datasets(split, raw_data, vocab, transforms) ==
    [k \in DOMAIN split |-> QuestionAnswerDataset(raw_data[split[k]], vocab, transforms)]

\* _wrap_datasets(datasets, split_): the one dataset for a string, the tuple otherwise;
\* `dss` are the addresses of the datasets
_wrap_datasets(dss, split_) ==
    IF split_.isstr
    THEN IF Len(dss) # 1
         THEN [kind |-> "raise", error |-> "ValueError"]
         ELSE [kind |-> "single", ds |-> dss[1]]
    ELSE [kind |-> "tuple", dss |-> dss]

Raised(error, heap) ==
    [pc |-> "failed", ret |-> [kind |-> "raise", error |-> error],
     vocabs |-> heap, datasets |-> <<>>]

\* _setup_datasets: the state the call leaves
_setup_datasets(a, corpus, heap) ==
    LET tokenizer == IF a.tokenizer = "None" THEN "basic_english" ELSE a.tokenizer
        chk == _check_default_set(a.split)
    IN  IF ~chk.ok
        THEN Raised(chk.error, heap)
        ELSE LET split == chk.split
                 raw_data == raw_data_of(corpus, split)
             IN  IF must_pass_vocab(a.vocab, split)
                 THEN Raised("TypeError", heap)
                 ELSE LET heap2 == IF a.vocab = VocabNone
                                   THEN Append(heap, build_vocab_from_iterator(
                                            apply_transform(tokenizer, vocab_data(raw_data))))
                                   ELSE heap
                          vocab == vocab_address(a.vocab, Len(heap))
                          transforms == MakeTransforms(tokenizer, vocab)
                          dss == make_datasets(split, raw_data, vocab, transforms)
                          wrapped == _wrap_datasets([k \in DOMAIN dss |-> k], a.split)
                      IN  IF wrapped.kind = "raise"
                          THEN Raised(wrapped.error, heap2)
                          ELSE [pc |-> "ready", ret |-> wrapped,
                                vocabs |-> heap2, datasets |-> dss]

\* SQuAD1(root, vocab, tokenizer, split), SQuAD2(root, vocab, tokenizer, split)
SQuAD1(a, corpus, heap) == _setup_datasets([a EXCEPT !.name = "SQuAD1"], corpus, heap)
SQuAD2(a, corpus, heap) == _setup_datasets([a EXCEPT !.name = "SQuAD2"], corpus, heap)

----------------------------------------------------------------------------
(* Inputs *)

GenAlphabet == {"a", " ", "."}

Texts(n) == SeqsUpTo(GenAlphabet, n)

Example(context, question, answers, answer_start) ==
    [context |-> context, question |-> question,
     answers |-> answers, answer_start |-> answer_start]

\* "A cat sat." / "What sat?" / ["cat"] / [2]
CatExample ==
    Example(<<"A", " ", "c", "a", "t", " ", "s", "a", "t", ".">>,
            <<"W", "h", "a", "t", " ", "s", "a", "t", "?">>,
            << <<"c", "a", "t">> >>, <<2>>)

\* an unanswerable example, as the raw SQuAD2 loader yields it: answers [""], answer_start [-1]
NoAnswerExample ==
    Example(<<"a", " ", "s", ".">>, <<"a", "?">>, << <<>> >>, <<-1>>)

\* a short answerable example: "a c." / "c?" / ["c"] / [2]
AnswerExample ==
    Example(<<"a", " ", "c", ".">>, <<"c", "?">>, << <<"c">> >>, <<2>>)

\* the examples the loader's splits are made of; "s" occurs in NoAnswerExample only
TrainExamples == {AnswerExample, NoAnswerExample}
DevExamples == {NoAnswerExample}

Corpora == [train : SeqsUpTo(TrainExamples, MaxExamples),
            dev : SeqsUpTo(DevExamples, MaxExamples)]

\* a vocabulary the caller built beforehand
CallerVocab == build_vocab_from_iterator(<< << <<"a">>, <<"a">>, <<".">> >> >>)

FactoryArgs ==
    [name : {"SQuAD1", "SQuAD2"}, vocab : {VocabNone, 1},
     tokenizer : TokenizerArgs, split : SplitArgs]

\* the indices a caller tries
Indices == (-(MaxExamples + 1))..MaxExamples

\* generated examples with one answer
Starts == (-2)..(MaxLen + 1)

OneAnswerExamples ==
    {Example(c, <<"a">>, <<a>>, <<st>>) : c \in Texts(MaxLen), a \in Texts(MaxLen), st \in Starts}

\* generated examples whose two lists have any lengths up to MaxAnswers
ListExamples ==
    {Example(<<"a", " ", "a", ".">>, <<"a">>, as, sts) :
        as \in SeqsUpTo({<<>>, <<"a">>, <<"a", ".">>}, MaxAnswers),
        sts \in SeqsUpTo({-1, 0, 2}, MaxAnswers)}

ItemExamples == OneAnswerExamples \cup ListExamples \cup {CatExample}

----------------------------------------------------------------------------
(* Actions *)

NoCall == [op |-> "none"]

Init ==
    /\ pc = "start"
    /\ args = [name |-> "none"]
    /\ raw \in Corpora
    /\ vocabs = <<CallerVocab>>
    /\ datasets = <<>>
    /\ ret = [kind |-> "none"]
    /\ last = NoCall
    /\ built = [datasets |-> <<>>, vocabs |-> <<CallerVocab>>]

\* the caller calls SQuAD1(...) or SQuAD2(...)
Setup ==
    /\ pc = "start"
    /\ \E a \in FactoryArgs :
          LET r == IF a.name = "SQuAD1" THEN SQuAD1(a, raw, vocabs) ELSE SQuAD2(a, raw, vocabs)
          IN  /\ args' = a
              /\ pc' = r.pc
              /\ ret' = r.ret
              /\ vocabs' = r.vocabs
              /\ datasets' = r.datasets
              /\ built' = [datasets |-> r.datasets, vocabs |-> r.vocabs]
    /\ UNCHANGED <<raw, last>>

\* dataset[i]
Get ==
    /\ pc = "ready"
    /\ last = NoCall
    /\ \E d \in DOMAIN datasets, i \in Indices :
          /\ last' = [op |-> "get", ds |-> d, i |-> i, out |-> __getitem__(datasets[d], i, vocabs)]
          /\ datasets' = [datasets EXCEPT ![d] = getitem_self(@, i)]
    /\ UNCHANGED <<pc, args, raw, vocabs, ret, built>>

\* len(dataset)
Length ==
    /\ pc = "ready"
    /\ last = NoCall
    /\ \E d \in DOMAIN datasets :
          last' = [op |-> "len", ds |-> d, out |-> __len__(datasets[d])]
    /\ UNCHANGED <<pc, args, raw, vocabs, datasets, ret, built>>

\* dataset.get_vocab()
GetVocab ==
    /\ pc = "ready"
    /\ last = NoCall
    /\ \E d \in DOMAIN datasets :
          last' = [op |-> "get_vocab", ds |-> d, out |-> get_vocab(datasets[d])]
    /\ UNCHANGED <<pc, args, raw, vocabs, datasets, ret, built>>

\* the caller is done with the outcome of its last call and goes on
Return ==
    /\ last # NoCall
    /\ last' = NoCall
    /\ UNCHANGED <<pc, args, raw, vocabs, datasets, ret, built>>

Next == Setup \/ Get \/ Length \/ GetVocab \/ Return

Spec == Init /\ [][Next]_vars

\* One dataset over one example: the state after SQuAD1(tokenizer=t, split='train')
\* returned, the train split holding one generated example.
ItemArgs(t) ==
    [name |-> "SQuAD1", vocab |-> VocabNone, tokenizer |-> t,
     split |-> [isstr |-> TRUE, names |-> <<"train">>]]

InitItem ==
    \E ex \in ItemExamples, t \in TokenizerArgs :
        LET corpus == [train |-> <<ex>>, dev |-> <<>>]
            r == SQuAD1(ItemArgs(t), corpus, <<CallerVocab>>)
        IN  /\ pc = r.pc
            /\ args = ItemArgs(t)
            /\ raw = corpus
            /\ vocabs = r.vocabs
            /\ datasets = r.datasets
            /\ ret = r.ret
            /\ last = NoCall
            /\ built = [datasets |-> r.datasets, vocabs |-> r.vocabs]

NextItem == Get \/ Length \/ GetVocab \/ Return

SpecItem == InitItem /\ [][NextItem]_vars

----------------------------------------------------------------------------
(* Properties *)

\* the last call was dataset[i] / it returned an encoded example
Called == last.op = "get"
Returned == last.op = "get" /\ last.out.ok

\* the raw examples the called dataset was constructed with
CalledData == built.datasets[last.ds].data

\* the raw example a returned dataset[i] was computed from
CalledExample == PyIndex(CalledData, last.i)

\* the tokenizer in force
Tokenizer == IF args.tokenizer = "None" THEN "basic_english" ELSE args.tokenizer

\* token indices of a text under the tokenizer and the vocabulary of the called dataset
Encoded(text) ==
    vocab_func(vocabs[built.datasets[last.ds].vocab], tokenize(Tokenizer, text))

\* answers[j] is a non-empty text of the context that begins at character offset
\* answer_start[j]
AnswerAt(ex, j) ==
    /\ j \in DOMAIN ex.answers
    /\ Len(ex.answers[j]) > 0
    /\ ex.answer_start[j] >= 0
    /\ ex.answer_start[j] + Len(ex.answers[j]) <= Len(ex.context)
    /\ \A m \in 1..Len(ex.answers[j]) : ex.context[ex.answer_start[j] + m] = ex.answers[j][m]

\* C1: for every answer j with answer_start[j] # -1 that is the text of the context at
\* that offset, the tokens of context_encoded at positions start..end of the returned
\* span are the encoded answer.
C1_SpanSelectsAnswer ==
    Returned =>
        \A j \in DOMAIN CalledExample.answer_start :
            (CalledExample.answer_start[j] # -1 /\ AnswerAt(CalledExample, j)) =>
                PySlice(last.out.context.data,
                        last.out.ans_pos[j].data[1],
                        last.out.ans_pos[j].data[2] + 1) = last.out.answers[j].data

\* C2: for every such answer the returned span is an index range of context_encoded:
\* 0 <= start <= end < len(context_encoded).
C2_SpanInRange ==
    Returned =>
        \A j \in DOMAIN CalledExample.answer_start :
            (CalledExample.answer_start[j] # -1 /\ AnswerAt(CalledExample, j)) =>
                /\ 0 <= last.out.ans_pos[j].data[1]
                /\ last.out.ans_pos[j].data[1] <= last.out.ans_pos[j].data[2]
                /\ last.out.ans_pos[j].data[2] < Len(last.out.context.data)

\* C3: for every answer j with answer_start[j] = -1 the returned span is the long
\* tensor of [-1, -1], whatever the context, the answer and the tokenizer.
C3_NoAnswerSpan ==
    Returned =>
        \A j \in DOMAIN CalledExample.answer_start :
            CalledExample.answer_start[j] = -1 =>
                last.out.ans_pos[j] = [dtype |-> "long", data |-> <<-1, -1>>]

C3_Witness ==
    /\ Returned
    /\ Tokenizer = "chars"
    /\ Len(CalledExample.context) = MaxLen
    /\ \E j \in DOMAIN CalledExample.answer_start :
          /\ CalledExample.answer_start[j] = -1
          /\ Len(CalledExample.answers[j]) > 0

\* the examples of the split a dataset of the factory call was asked for
RequestedData(d) == raw[args.split.names[d]]

\* C4 as stated: len is the number of raw examples, and dataset[i] returns exactly
\* for 0 <= i < len.
C4_FailsOutsideZeroToLen ==
    /\ last.op = "len" => last.out = Len(RequestedData(last.ds))
    /\ Called => (last.out.ok <=> (0 <= last.i /\ last.i < Len(RequestedData(last.ds))))

\* C4, amended: len is the number of raw examples; dataset[i] raises IndexError for
\* i >= len and for i < -len; for -len <= i < len it returns, a negative i giving
\* what len + i gives (the examples here have as many answers as offsets).
C4_PythonIndexRange ==
    /\ last.op = "len" => last.out = Len(RequestedData(last.ds))
    /\ Called =>
          LET n == Len(RequestedData(last.ds))
          IN  /\ last.out.ok <=> (-n <= last.i /\ last.i < n)
              /\ ~last.out.ok => last.out = [ok |-> FALSE, error |-> "IndexError"]
              /\ (last.out.ok /\ last.i < 0) =>
                    last.out = __getitem__(datasets[last.ds], n + last.i, vocabs)

C4_Witness ==
    /\ Returned
    /\ last.i = -1
    /\ Len(RequestedData(last.ds)) = MaxExamples

\* C5: a successful factory call returns the dataset of the one requested split for a
\* string, and for a tuple a tuple of as many datasets, the k-th holding the raw
\* examples of the k-th requested name.
C5_OneDatasetPerSplit ==
    pc = "ready" =>
        IF args.split.isstr
        THEN /\ ret.kind = "single"
             /\ datasets[ret.ds].data = raw[args.split.names[1]]
        ELSE /\ ret.kind = "tuple"
             /\ Len(ret.dss) = Len(args.split.names)
             /\ \A k \in DOMAIN ret.dss : datasets[ret.dss[k]].data = raw[args.split.names[k]]

C5_Witness ==
    /\ pc = "ready"
    /\ args.split = [isstr |-> FALSE, names |-> <<"dev", "train">>]
    /\ raw.train # raw.dev
    /\ ret.kind = "tuple"

TokensOf(data) ==
    UNION {Range(tokenize(Tokenizer, data[k].context))
             \cup Range(tokenize(Tokenizer, data[k].question))
             \cup UNION {Range(tokenize(Tokenizer, data[k].answers[m])) :
                            m \in DOMAIN data[k].answers} : k \in DOMAIN data}

\* C7: the datasets of one factory call hold one vocabulary object, which get_vocab
\* returns: the caller's when one is passed (none is built), else one new vocabulary
\* whose tokens are those of the train split.
C7_OneVocabulary ==
    pc = "ready" =>
        LET v == IF args.vocab = VocabNone THEN Len(vocabs) ELSE args.vocab
        IN  /\ \A d \in DOMAIN datasets : datasets[d].vocab = v
            /\ last.op = "get_vocab" => last.out = v
            /\ args.vocab # VocabNone => vocabs = <<CallerVocab>>
            /\ args.vocab = VocabNone =>
                  /\ SubSeq(vocabs, 1, v - 1) = <<CallerVocab>>
                  /\ Range(vocabs[v].itos) = Range(Specials) \cup TokensOf(raw.train)
                  /\ Len(vocabs[v].itos) = Cardinality(Range(vocabs[v].itos))

C7_Witness ==
    /\ pc = "ready"
    /\ last.op = "get_vocab"
    /\ last.ds = 2
    /\ args.vocab = VocabNone
    /\ ~(TokensOf(raw.dev) \subseteq TokensOf(raw.train))

\* C8: for every answer j with answer_start[j] # -1 the returned span is the long
\* tensor of [start, end], start the number of tokens of context[:answer_start[j]]
\* and end = start + (number of tokens of answers[j]) - 1; "A cat sat." / ["cat"] /
\* [2] gives [1, 1] under the whitespace and punctuation tokenizers.
C8_SpanFromPrefix ==
    Returned =>
        /\ \A j \in DOMAIN CalledExample.answer_start :
              CalledExample.answer_start[j] # -1 =>
                  LET start ==
                          Len(tokenize(Tokenizer,
                                  PyPrefix(CalledExample.context, CalledExample.answer_start[j])))
                      count == Len(tokenize(Tokenizer, CalledExample.answers[j]))
                  IN  last.out.ans_pos[j] =
                          [dtype |-> "long", data |-> <<start, start + count - 1>>]
        /\ (CalledExample = CatExample /\ Tokenizer \in {"basic_english", "split"}) =>
              last.out.ans_pos = << [dtype |-> "long", data |-> <<1, 1>>] >>

C8_Witness ==
    /\ Returned
    /\ CalledExample = CatExample
    /\ Tokenizer = "basic_english"

\* C9: once constructed, the datasets and the vocabularies never change, so len and
\* dataset[i] give what they give on the objects the factory returned.
C9_ReadOnly ==
    pc = "ready" =>
        /\ datasets = built.datasets
        /\ vocabs = built.vocabs
        /\ Called => last.out = __getitem__(built.datasets[last.ds], last.i, built.vocabs)
        /\ last.op = "len" => last.out = Len(RequestedData(last.ds))

C9_Witness ==
    /\ Returned
    /\ Len(datasets) = MaxSplits
    /\ last.ds = MaxSplits

\* C10: dataset[i] makes one answer and one span per entry of answer_start, entry j
\* from answers[j] and answer_start[j]; with fewer offsets than answers it returns and
\* leaves the surplus answers out, with more offsets than answers it raises IndexError.
C10_OnePerAnswerStart ==
    (Called /\ PyIndexOk(CalledData, last.i)) =>
        LET ex == CalledExample
        IN  IF Len(ex.answer_start) <= Len(ex.answers)
            THEN /\ last.out.ok
                 /\ Len(last.out.answers) = Len(ex.answer_start)
                 /\ Len(last.out.ans_pos) = Len(ex.answer_start)
                 /\ \A j \in DOMAIN ex.answer_start :
                       last.out.answers[j] = [dtype |-> "long", data |-> Encoded(ex.answers[j])]
            ELSE last.out = [ok |-> FALSE, error |-> "IndexError"]

C10_Witness ==
    /\ Returned
    /\ Len(CalledExample.answer_start) = 1
    /\ Len(CalledExample.answers) = MaxAnswers

=============================================================================
